---- MODULE Spec2Model ----
(***************************************************************************)
(* Elasticsearch foreign data wrapper (pg_es_fdw).                         *)
(*                                                                         *)
(* Two parts share this module:                                            *)
(*   - the query compiler of _es_query.py (_base_qual_to_es, _qual_to_es,  *)
(*     quals_to_es) as operators, applied by the actions of SpecCompile to *)
(*     inputs drawn in InitCompile;                                        *)
(*   - the scan protocol of ElasticsearchFDW (execute, the generator it    *)
(*     returns, _handle_aggregation_response, end_scan) as a state machine *)
(*     over one wrapper instance and the scans the executor runs on it.    *)
(*                                                                         *)
(* Python values are tagged records so that values of different Python     *)
(* types can be compared: None, PyStr(<<chars>>), PyInt(i), PyDict(f), PyList(s).  *)
(* JSON documents are records / functions with string domains.             *)
(***************************************************************************)
EXTENDS Integers, Sequences, FiniteSets, TLC

VARIABLES
    \* ---- compiler harness
    cin,        \* the arguments of the call being made
    cout,       \* what the call returned (or the exception it raised)
    cpc,        \* "input" | "base" | "qual" | "query"
    \* ---- the wrapper instance
    scroll_id,  \* self.scroll_id: 0 is None, otherwise a scroll token
    \* ---- one generator per scan (locals of execute)
    pc,         \* position of the generator / of the scan
    query,      \* local `query` (the compiled document, mutated by `after`)
    is_aggregation, \* local `is_aggregation`, as its truth value
    aggs,           \* argument `aggs`
    group_clauses,  \* argument `group_clauses`
    response,   \* local `response`
    idx,        \* how many rows of `response` the for loop has yielded
    \* ---- observation of the scan (history)
    pages,      \* the responses the scan received, in order
    yielded,    \* the rows the caller pulled, in order
    reqs,       \* the requests the scan issued, in order
    logged,     \* number of log2pg(..., ERROR) calls made by the scan
    raised,     \* which call of the scan let an exception reach the caller
    cleared     \* per scan: the tokens its end_scan passed to clear_scroll

compVars == <<cin, cout, cpc>>
scanVars == <<scroll_id, pc, query, is_aggregation, aggs, group_clauses, response,
              idx, pages, yielded, reqs, logged, raised, cleared>>
vars == <<cin, cout, cpc, scroll_id, pc, query, is_aggregation, aggs, group_clauses,
          response, idx, pages, yielded, reqs, logged, raised, cleared>>

-----------------------------------------------------------------------------
(* Python values *)

None == [t |-> "none"]
PyStr(s) == [t |-> "str", s |-> s]
PyInt(i) == [t |-> "int", i |-> i]
PyDict(d) == [t |-> "dict", d |-> d]
PyList(l) == [t |-> "list", l |-> l]

\* bool(x) of Python for the values used here
Truthy(x) ==
    CASE x.t = "none" -> FALSE
      [] x.t = "dict" -> DOMAIN x.d # {}
      [] x.t = "list" -> Len(x.l) > 0
      [] x.t = "str"  -> Len(x.s) > 0
      [] x.t = "int"  -> x.i # 0

\* an exception leaving a function, in place of its return value
Raised(e) == [raised |-> e]
IsRaised(x) == DOMAIN x = {"raised"}

EmptyDoc == <<>>

-----------------------------------------------------------------------------
(* multicorn.Qual: operator is a str ([s |-> op]) or, for a list qualifier,  *)
(* the tuple (op, is_any) ([tuple |-> <<op, is_any>>], operator[0] being     *)
(* tuple[1] here); value is a Python value, a PyList for a list qualifier.  *)

Qual(field_name, op, value) ==
    [field_name |-> field_name, operator |-> [s |-> op], value |-> value,
     is_list_operator |-> FALSE, list_any_or_all |-> "None"]

ListQual(field_name, op, is_any, values) ==
    [field_name |-> field_name, operator |-> [tuple |-> <<op, is_any>>],
     value |-> PyList(values), is_list_operator |-> TRUE,
     list_any_or_all |-> IF is_any THEN "ANY" ELSE "ALL"]

-----------------------------------------------------------------------------
(* _es_query.py *)

_RANGE_OPS == (">" :> "gt") @@ (">=" :> "gte") @@ ("<" :> "lt") @@ ("<=" :> "lte")

_PG_TO_ES_AGG_FUNCS ==
    ("avg" :> "avg") @@ ("max" :> "max") @@ ("min" :> "min") @@ ("sum" :> "sum")
    @@ ("count" :> "value_count") @@ ("count.*" :> "None")

\* str.replace("%", "*") on a sequence of characters
Replace(s) == [i \in 1..Len(s) |-> IF s[i] = "%" THEN "*" ELSE s[i]]

\* column_map.get(col, col) under `if column_map:`
MapCol(col, column_map) ==
    IF Truthy(column_map) /\ col \in DOMAIN column_map.d
    THEN column_map.d[col] ELSE col

\* the branch `if value is None:` of _base_qual_to_es
NullClause(col, op) ==
    IF op = "="
    THEN [bool |-> [must_not |-> [exists |-> [field |-> col]]]]
    ELSE IF op \in {"<>", "!="}
    THEN [exists |-> [field |-> col]]
    ELSE [match_all |-> EmptyDoc]

\* the branches of _base_qual_to_es after the null test
ValueClause(col, op, value) ==
    IF op \in DOMAIN _RANGE_OPS
    THEN [range |-> (col :> (_RANGE_OPS[op] :> value))]
    ELSE IF op = "="
    THEN [term |-> (col :> value)]
    ELSE IF op \in {"<>", "!="}
    THEN [bool |-> [must_not |-> [term |-> (col :> value)]]]
    ELSE IF op = "~~"
    THEN IF value.t = "str"
         THEN [wildcard |-> (col :> PyStr(Replace(value.s)))]
         ELSE Raised("AttributeError")   \* value.replace on a non-string
    ELSE [match_all |-> EmptyDoc]

\* the null test taken after the range and term branches
BaseQualNullTestLast(col0, op, value, column_map) ==
    LET col == MapCol(col0, column_map) IN
    IF op \in DOMAIN _RANGE_OPS \cup {"=", "<>", "!="}
    THEN ValueClause(col, op, value)
    ELSE IF value = None THEN NullClause(col, op)
    ELSE ValueClause(col, op, value)

_base_qual_to_es(col0, op, value, column_map) ==
    LET col == MapCol(col0, column_map) IN
    IF value = None THEN NullClause(col, op)
    ELSE ValueClause(col, op, value)

\* a list comprehension ends at the first element whose evaluation raises
AnyRaised(frags) == \E i \in 1..Len(frags) : IsRaised(frags[i])
FirstRaised(frags) ==
    frags[CHOOSE i \in 1..Len(frags) :
             /\ IsRaised(frags[i])
             /\ \A j \in 1..(i-1) : ~IsRaised(frags[j])]

\* ANY joined like ALL
WrapShouldAsMust(frags) == [bool |-> [must |-> frags]]

WrapShould(frags) == [bool |-> [should |-> frags]]
WrapMust(frags) == [bool |-> [must |-> frags]]

_qual_to_es(qual, column_map) ==
    IF qual.is_list_operator
    THEN LET frags == [i \in 1..Len(qual.value.l) |->
                          _base_qual_to_es(qual.field_name, qual.operator.tuple[1],
                                           qual.value.l[i], column_map)]
         IN IF AnyRaised(frags) THEN FirstRaised(frags)
            ELSE IF qual.list_any_or_all = "ANY" THEN WrapShould(frags)
            ELSE WrapMust(frags)
    ELSE _base_qual_to_es(qual.field_name, qual.operator.s, qual.value, column_map)

RECURSIVE Filter(_, _)
\* [q for q in quals if q.field_name not in ignore_columns]
Filter(quals, ignore) ==
    IF quals = <<>> THEN <<>>
    ELSE IF Head(quals).field_name \in ignore
         THEN Filter(Tail(quals), ignore)
         ELSE <<Head(quals)>> \o Filter(Tail(quals), ignore)

WrapQuery(frags) == [query |-> [bool |-> [must |-> frags]]]

\* aggs_query of quals_to_es; a KeyError when a function is not in the table
AggsQuery(ag) ==
    LET names == DOMAIN ag.d \ {"count.*"} IN
    IF \E n \in names : ag.d[n].function \notin DOMAIN _PG_TO_ES_AGG_FUNCS
    THEN Raised("KeyError")
    ELSE [n \in names |->
             (_PG_TO_ES_AGG_FUNCS[ag.d[n].function] :> [field |-> ag.d[n].column])]

GroupQuery(ag, gc) ==
    LET composite == [composite |->
                         [sources |-> [i \in 1..Len(gc.l) |->
                                          (gc.l[i] :> [terms |-> [field |-> gc.l[i]]])]]]
    IN [group_buckets |->
           IF ag # None
           THEN ("aggregations" :> AggsQuery(ag)) @@ composite
           ELSE composite]

quals_to_es(quals, ag, gc, ignore_columns, column_map) ==
    LET ignore == IF Truthy(ignore_columns)
                  THEN {ignore_columns.l[i] : i \in 1..Len(ignore_columns.l)}
                  ELSE {}
        kept == Filter(quals, ignore)
        frags == [i \in 1..Len(kept) |-> _qual_to_es(kept[i], column_map)]
        q0 == IF AnyRaised(frags) THEN FirstRaised(frags) ELSE WrapQuery(frags)
    IN  IF IsRaised(q0) THEN q0
        ELSE IF ag # None /\ IsRaised(AggsQuery(ag)) THEN AggsQuery(ag)
        ELSE LET q1 == IF ag # None /\ gc = None
                       THEN (IF "count.*" \in DOMAIN ag.d
                             THEN ("track_total_hits" :> TRUE) ELSE EmptyDoc)
                            @@ ("aggs" :> AggsQuery(ag)) @@ q0
                       ELSE q0
             IN IF gc # None
                THEN ("aggs" :> GroupQuery(ag, gc)) @@ q1
                ELSE q1

-----------------------------------------------------------------------------
(* The calls the compiler harness makes: the arguments are drawn in        *)
(* InitCompile, one action per function of _es_query.py.                   *)

MaxListLen == 2

CompFields == {"id", "q"}
CompOps == {"=", "<>", "!=", ">", ">=", "<", "<=", "~~", "~~*"}
CompValues == {None, PyInt(5), PyStr(<<"%", "a", "%">>)}

RECURSIVE SeqsUpTo(_, _)
SeqsUpTo(S, n) ==
    IF n = 0 THEN {<<>>}
    ELSE LET shorter == SeqsUpTo(S, n - 1)
         IN shorter \cup {Append(t, x) : t \in {u \in shorter : Len(u) = n - 1}, x \in S}

CompQuals ==
    {Qual(f, op, v) : f \in CompFields, op \in CompOps, v \in CompValues}
    \cup {ListQual(f, op, a, vs) : f \in CompFields, op \in CompOps, a \in BOOLEAN,
                                   vs \in SeqsUpTo(CompValues, MaxListLen)}

\* a qualifier on the query column ahead of the one under test
LeadQual == Qual("q", "=", PyStr(<<"a">>))

CompQualLists ==
    {<<>>} \cup {<<q>> : q \in CompQuals} \cup {<<LeadQual, q>> : q \in CompQuals}

CompAggs ==
    {None, PyDict(EmptyDoc),
     PyDict(("count.*" :> [function |-> "count", column |-> "*"])
            @@ ("sum.amount" :> [function |-> "sum", column |-> "amount"]))}

CompGroups == {None, PyList(<<>>), PyList(<<"region">>)}
CompIgnore == {None, PyList(<<"q">>)}
CompColumnMaps == {None, PyDict(("id" :> "_id"))}

InitCompileVars ==
    /\ cin \in [quals : CompQualLists, aggs : CompAggs, group_clauses : CompGroups,
                ignore_columns : CompIgnore, column_map : CompColumnMaps]
    /\ cout = EmptyDoc
    /\ cpc = "input"

\* _base_qual_to_es(col, op, value, column_map) on a scalar qualifier
CompileBase ==
    /\ cpc = "input"
    /\ Len(cin.quals) = 1
    /\ ~cin.quals[1].is_list_operator
    /\ cout' = _base_qual_to_es(cin.quals[1].field_name, cin.quals[1].operator.s,
                                cin.quals[1].value, cin.column_map)
    /\ cpc' = "base"
    /\ UNCHANGED <<cin, scanVars>>

\* _qual_to_es(qual, column_map)
CompileQual ==
    /\ cpc = "input"
    /\ Len(cin.quals) = 1
    /\ cout' = _qual_to_es(cin.quals[1], cin.column_map)
    /\ cpc' = "qual"
    /\ UNCHANGED <<cin, scanVars>>

\* quals_to_es(quals, aggs, group_clauses, ignore_columns, column_map)
CompileQuery ==
    /\ cpc = "input"
    /\ cout' = quals_to_es(cin.quals, cin.aggs, cin.group_clauses,
                           cin.ignore_columns, cin.column_map)
    /\ cpc' = "query"
    /\ UNCHANGED <<cin, scanVars>>

NextCompile == CompileBase \/ CompileQual \/ CompileQuery

-----------------------------------------------------------------------------
(* The wrapper instance and its scans *)

Scans == {1, 2}

NoResponse == [n |-> 0, tok |-> 0, after |-> 0]

\* the instance as __init__ leaves it, with the first `running` scans about to
\* be executed with arguments among `as` and `gcs`
InitScanVars(running, as, gcs) ==
    /\ scroll_id = 0
    /\ pc = [s \in Scans |-> IF s <= running THEN "idle" ELSE "unused"]
    /\ query = [s \in Scans |-> EmptyDoc]
    /\ is_aggregation = [s \in Scans |-> FALSE]
    /\ aggs \in [Scans -> as]
    /\ group_clauses \in [Scans -> gcs]
    /\ \A s \in Scans : s > running => aggs[s] = None /\ group_clauses[s] = None
    /\ response = [s \in Scans |-> NoResponse]
    /\ idx = [s \in Scans |-> 0]
    /\ pages = [s \in Scans |-> <<>>]
    /\ yielded = [s \in Scans |-> <<>>]
    /\ reqs = [s \in Scans |-> <<>>]
    /\ logged = [s \in Scans |-> 0]
    /\ raised = [s \in Scans |-> {}]
    /\ cleared = [s \in Scans |-> {}]

(* self.scroll_size (the scroll_size option) and the longest run of         *)
(* requests a scan is followed for                                          *)
ScrollSize == 2
MaxPages == 3

\* the options this instance was built with: no query_column, no score_column,
\* rowid_column left at its default
RowidColumn == "id"

\* the qualifiers the executor pushes down to the scans
ScanQuals == <<Qual("id", "=", PyInt(5))>>

\* what the executor may pass as aggs and group_clauses
ScanAggs ==
    {None, PyDict(EmptyDoc),
     PyDict(("count.*" :> [function |-> "count", column |-> "*"]))}
ScanGroups == {None, PyList(<<>>), PyList(<<"region">>)}

\* query["aggs"]["group_buckets"]["composite"][key] = value
SetComposite(q, key, value) ==
    [q EXCEPT !["aggs"]["group_buckets"]["composite"] = (key :> value) @@ @]

\* _get_query with self.query_column unset: (query, None)
_get_query(quals, a, gc) ==
    LET q == quals_to_es(quals, a, gc, PyList(<<>>),
                         PyDict((RowidColumn :> "_id")))
    IN IF IsRaised(q) THEN q
       ELSE IF gc # None THEN SetComposite(q, "size", ScrollSize)
       ELSE q

\* `aggs or group_clauses`, as the truth value the conditions take of it
IsAggregation(a, gc) == Truthy(a) \/ Truthy(gc)

\* the scroll context the engine opens for the initial search of scan s
TokenOf(s) == s

\* self.client.search(size=..., scroll=..., body=query) of execute
SearchRequest(q, isagg) ==
    IF DOMAIN q # {}
    THEN [kind |-> "search", size |-> IF ~isagg THEN ScrollSize ELSE 0,
          scroll |-> ~isagg, body |-> q, scroll_id |-> 0]
    ELSE [kind |-> "search", size |-> ScrollSize, scroll |-> TRUE,
          body |-> EmptyDoc, scroll_id |-> 0]

\* self.client.scroll(scroll_id=self.scroll_id, scroll=self.scroll_duration)
ScrollRequest == [kind |-> "scroll", size |-> -1, scroll |-> TRUE,
                  body |-> EmptyDoc, scroll_id |-> scroll_id]

\* self.client.search(size=0, body=query) of _handle_aggregation_response
ContinuationRequest(q) ==
    [kind |-> "search", size |-> 0, scroll |-> FALSE, body |-> q, scroll_id |-> 0]

Failure == [ok |-> FALSE, n |-> 0, tok |-> 0, after |-> 0]
Page(n, tok, after) == [ok |-> TRUE, n |-> n, tok |-> tok, after |-> after]

\* What the engine may answer: the call raises, or returns a page of n hits
\* (buckets, for a composite aggregation) with the scroll token of the context
\* (when a scroll window is open) and an after_key (after # 0) or none.
Outcomes(s, req) ==
    {Failure} \cup
    IF req.kind = "scroll"
    THEN IF req.scroll_id = 0 THEN {}
         ELSE {Page(n, req.scroll_id, 0) : n \in 0..ScrollSize}
    ELSE IF req.scroll
    THEN {Page(n, TokenOf(s), 0) : n \in 0..ScrollSize}
    ELSE IF "aggs" \in DOMAIN req.body /\ "group_buckets" \in DOMAIN req.body["aggs"]
    THEN {Page(n, 0, k) : n \in 0..ScrollSize, k \in {0, Len(pages[s]) + 1}}
    ELSE {Page(0, 0, 0)}

Row(by, page, i) == [by |-> by, page |-> page, i |-> i]
Sent(req, outcome) == req @@ [ok |-> outcome.ok]
AsResponse(o) == [n |-> o.n, tok |-> o.tok, after |-> o.after]

\* no generator is between two yields: calls are synchronous, one thread
NoOneMidPull == \A t \in Scans : pc[t] # "fetch"

\* a try block that leaves out the requests made under `yield from`
CaughtInExecuteOnly(kind) == kind # "continuation"

\* which failed calls the try block of execute covers: all of them, those of
\* _handle_aggregation_response included (it runs under `yield from`)
Caught(kind) == TRUE

\* the row loop leaving after a page of exactly scroll_size hits too
MorePagesOffByOne(n) == ~(n <= ScrollSize)

\* the next page is asked for unless the page was short
MorePages(n) == ~(n < ScrollSize)

\* the except clause of execute: log and return; an exception the try block
\* does not cover reaches the caller
Except(s, kind) ==
    /\ pc' = [pc EXCEPT ![s] = "done"]
    /\ logged' = [logged EXCEPT ![s] = IF Caught(kind) THEN @ + 1 ELSE @]
    /\ raised' = [raised EXCEPT ![s] = IF Caught(kind) THEN @ ELSE @ \cup {"execute"}]

\* the bucket loop leaving at a short page, whatever its after_key
NoAfterKeyOrShort(r) == r.after = 0 \/ r.n < ScrollSize

\* "after_key" not in response["aggregations"]["group_buckets"]
NoAfterKey(r) == r.after = 0

\* the bucket loop of _handle_aggregation_response from its top, on response r
Drain(s, r, q) ==
    IF r.n > 0
    THEN /\ pc' = [pc EXCEPT ![s] = "buckets"]
         /\ idx' = [idx EXCEPT ![s] = 1]
         /\ yielded' = [yielded EXCEPT ![s] = Append(@, Row("agg", Len(pages[s]) + 1, 1))]
         /\ query' = [query EXCEPT ![s] = q]
    ELSE /\ idx' = [idx EXCEPT ![s] = 0]
         /\ yielded' = yielded
         /\ IF NoAfterKey(r)
            THEN pc' = [pc EXCEPT ![s] = "done"] /\ query' = [query EXCEPT ![s] = q]
            ELSE /\ pc' = [pc EXCEPT ![s] = "fetch"]
                 /\ query' = [query EXCEPT ![s] = SetComposite(q, "after", r.after)]

\* execute(quals, columns, aggs, group_clauses) and the first next() on the
\* generator it returns: up to the first yield or the return
Start(s) ==
    /\ pc[s] = "idle"
    /\ NoOneMidPull
    /\ UNCHANGED <<compVars, cleared, aggs, group_clauses>>
    /\ LET a == aggs[s]
           gc == group_clauses[s]
           q == _get_query(ScanQuals, a, gc)
           isagg == IsAggregation(a, gc)
           req == SearchRequest(q, isagg)
       IN IF IsRaised(q)
          THEN /\ Except(s, "compile")
               /\ UNCHANGED <<scroll_id, query, is_aggregation, response, idx, pages,
                              yielded, reqs>>
          ELSE \E o \in Outcomes(s, req) :
               /\ is_aggregation' = [is_aggregation EXCEPT ![s] = isagg]
               /\ reqs' = [reqs EXCEPT ![s] = Append(@, Sent(req, o))]
               /\ IF ~o.ok
                  THEN /\ Except(s, "search")
                       /\ query' = [query EXCEPT ![s] = q]
                       /\ UNCHANGED <<scroll_id, response, idx, pages, yielded>>
                  ELSE /\ response' = [response EXCEPT ![s] = AsResponse(o)]
                       /\ pages' = [pages EXCEPT ![s] = Append(@, AsResponse(o))]
                       /\ UNCHANGED <<logged, raised>>
                       /\ IF o.n = 0 /\ ~isagg
                          THEN /\ pc' = [pc EXCEPT ![s] = "done"]
                               /\ query' = [query EXCEPT ![s] = q]
                               /\ UNCHANGED <<scroll_id, idx, yielded>>
                          ELSE IF isagg
                          THEN /\ scroll_id' = scroll_id
                               /\ IF gc = None
                                  THEN /\ pc' = [pc EXCEPT ![s] = "aggrow"]
                                       /\ yielded' = [yielded EXCEPT ![s] =
                                                        Append(@, Row("agg", 1, 1))]
                                       /\ query' = [query EXCEPT ![s] = q]
                                       /\ idx' = idx
                                  ELSE Drain(s, o, q)
                          ELSE /\ scroll_id' = o.tok
                               /\ pc' = [pc EXCEPT ![s] = "rows"]
                               /\ idx' = [idx EXCEPT ![s] = 1]
                               /\ yielded' = [yielded EXCEPT ![s] =
                                                Append(@, Row("scroll", 1, 1))]
                               /\ query' = [query EXCEPT ![s] = q]

\* next() on a generator suspended at a yield: the next row of the page in
\* hand, or, the page being exhausted, the return or the way to the next request
Pull(s) ==
    /\ pc[s] \in {"rows", "buckets", "aggrow"}
    /\ NoOneMidPull
    /\ UNCHANGED <<compVars, scroll_id, is_aggregation, aggs, group_clauses, response,
                   pages, reqs, logged, raised, cleared>>
    /\ IF pc[s] = "aggrow"
       THEN /\ pc' = [pc EXCEPT ![s] = "done"]
            /\ UNCHANGED <<idx, yielded, query>>
       ELSE IF idx[s] < response[s].n
       THEN /\ idx' = [idx EXCEPT ![s] = @ + 1]
            /\ yielded' = [yielded EXCEPT ![s] =
                             Append(@, Row(IF pc[s] = "rows" THEN "scroll" ELSE "agg",
                                           Len(pages[s]), idx[s] + 1))]
            /\ UNCHANGED <<pc, query>>
       ELSE IF pc[s] = "rows"
       THEN /\ pc' = [pc EXCEPT ![s] = IF MorePages(response[s].n) THEN "fetch" ELSE "done"]
            /\ UNCHANGED <<idx, yielded, query>>
       ELSE /\ UNCHANGED <<idx, yielded>>
            /\ IF NoAfterKey(response[s])
               THEN pc' = [pc EXCEPT ![s] = "done"] /\ query' = query
               ELSE /\ pc' = [pc EXCEPT ![s] = "fetch"]
                    /\ query' = [query EXCEPT ![s] =
                                   SetComposite(@, "after", response[s].after)]

\* the request for the next page, inside the same next(): self.client.scroll
\* of the row loop, self.client.search of the bucket loop
Fetch(s) ==
    /\ pc[s] = "fetch"
    /\ Len(pages[s]) < MaxPages
    /\ UNCHANGED <<compVars, is_aggregation, aggs, group_clauses, cleared>>
    /\ LET req == IF is_aggregation[s] THEN ContinuationRequest(query[s])
                  ELSE ScrollRequest
       IN \E o \in Outcomes(s, req) :
          /\ reqs' = [reqs EXCEPT ![s] = Append(@, Sent(req, o))]
          /\ IF ~o.ok
             THEN /\ Except(s, IF is_aggregation[s] THEN "continuation" ELSE "scroll")
                  /\ UNCHANGED <<scroll_id, query, response, idx, pages, yielded>>
             ELSE /\ response' = [response EXCEPT ![s] = AsResponse(o)]
                  /\ pages' = [pages EXCEPT ![s] = Append(@, AsResponse(o))]
                  /\ UNCHANGED <<logged, raised>>
                  /\ IF is_aggregation[s]
                     THEN scroll_id' = scroll_id /\ Drain(s, o, query[s])
                     ELSE /\ scroll_id' = o.tok
                          /\ query' = query
                          /\ IF o.n > 0
                             THEN /\ pc' = [pc EXCEPT ![s] = "rows"]
                                  /\ idx' = [idx EXCEPT ![s] = 1]
                                  /\ yielded' = [yielded EXCEPT ![s] =
                                        Append(@, Row("scroll", Len(pages[s]) + 1, 1))]
                             ELSE /\ pc' = [pc EXCEPT ![s] =
                                              IF MorePages(o.n) THEN "fetch" ELSE "done"]
                                  /\ idx' = [idx EXCEPT ![s] = 0]
                                  /\ yielded' = yielded

\* end_scan(), called when the scan is over: the generator returned or the
\* caller stopped pulling. clear_ok is whether clear_scroll returns or raises.
EndScan(s, clear_ok) ==
    /\ pc[s] \in {"rows", "buckets", "aggrow", "done"}
    /\ NoOneMidPull
    /\ pc' = [pc EXCEPT ![s] = "closed"]
    /\ UNCHANGED <<compVars, query, is_aggregation, aggs, group_clauses, response, idx,
                   pages, yielded, reqs, logged>>
    /\ IF scroll_id # 0
       THEN /\ cleared' = [cleared EXCEPT ![s] = @ \cup {scroll_id}]
            /\ IF clear_ok
               THEN /\ scroll_id' = 0
                    /\ raised' = raised
               ELSE /\ scroll_id' = scroll_id
                    /\ raised' = [raised EXCEPT ![s] = @ \cup {"end_scan"}]
       ELSE /\ clear_ok
            /\ UNCHANGED <<scroll_id, raised, cleared>>

Next ==
    \/ \E s \in Scans : Start(s)
    \/ \E s \in Scans : Pull(s)
    \/ \E s \in Scans : Fetch(s)
    \/ \E s \in Scans, clear_ok \in BOOLEAN : EndScan(s, clear_ok)

NoCompile ==
    /\ cin = EmptyDoc
    /\ cout = EmptyDoc
    /\ cpc = "off"

\* one scan on the instance, with any arguments
Init ==
    /\ NoCompile
    /\ InitScanVars(1, ScanAggs, ScanGroups)

Spec == Init /\ [][Next]_vars

\* two row scans on the same instance (a join of the foreign table with
\* itself): the executor pulls from either in any order
InitTwo ==
    /\ NoCompile
    /\ InitScanVars(2, {None}, {None})

SpecTwo == InitTwo /\ [][Next]_vars

InitCompile == InitCompileVars /\ InitScanVars(0, {None}, {None})

SpecCompile == InitCompile /\ [][NextCompile]_vars

-----------------------------------------------------------------------------
(* Claims about the compiler *)

TheQual == cin.quals[1]

\* the field a qualifier on `col` must target under the drawn column_map
ExpectedField(col) ==
    IF cin.column_map # None /\ col = "id" THEN "_id" ELSE col

\* C7: a null-valued qualifier with operator = compiles to the clause
\* "the (mapped) field does not exist", with <> or != to "the field exists",
\* whatever the column and column_map; the null test is taken before the
\* range, term and wildcard branches (no other operator on null gives one).
C7_NullComparison ==
    (cpc \in {"base", "qual"} /\ ~TheQual.is_list_operator /\ TheQual.value = None)
    => LET f == ExpectedField(TheQual.field_name)
           op == TheQual.operator.s
       IN /\ op = "=" => cout = [bool |-> [must_not |-> [exists |-> [field |-> f]]]]
          /\ op \in {"<>", "!="} => cout = [exists |-> [field |-> f]]
          /\ DOMAIN cout \cap {"range", "term", "wildcard", "raised"} = {}

C7_Witness ==
    /\ cpc = "base"
    /\ TheQual = Qual("id", "=", None)
    /\ cin.column_map # None
    /\ cout = [bool |-> [must_not |-> [exists |-> [field |-> "_id"]]]]

\* the fragments of the values of a list qualifier, each compiled alone
PerValue ==
    [i \in 1..Len(TheQual.value.l) |->
        _base_qual_to_es(TheQual.field_name, TheQual.operator.tuple[1],
                         TheQual.value.l[i], cin.column_map)]

\* C8: a list qualifier compiles to the per-value fragments of its values, in
\* order, under bool.should when the list mode is ANY and under bool.must when
\* it is ALL (when a per-value compilation raises, so does the list's).
C8_ListExpansion ==
    (cpc = "qual" /\ TheQual.is_list_operator)
    => IF \E i \in DOMAIN PerValue : IsRaised(PerValue[i])
       THEN IsRaised(cout)
       ELSE /\ TheQual.operator.tuple[2] => cout = [bool |-> [should |-> PerValue]]
            /\ ~TheQual.operator.tuple[2] => cout = [bool |-> [must |-> PerValue]]

C8_Witness ==
    /\ cpc = "qual"
    /\ TheQual = ListQual("id", "=", TRUE, <<PyInt(5), None>>)
    /\ cin.column_map # None
    /\ cout = [bool |-> [should |->
                 << [term |-> ("_id" :> PyInt(5))],
                    [bool |-> [must_not |-> [exists |-> [field |-> "_id"]]]] >>]]

KnownOps == {"=", "<>", "!=", ">", ">=", "<", "<=", "~~"}

\* C9: quals_to_es returns a query document for every input, never an
\* exception; an unknown operator, and a non-equality operator on null,
\* compile to match_all.
C9_CompileNeverRaises ==
    /\ cpc = "query" => ~IsRaised(cout)
    /\ (cpc = "base" /\ ~IsRaised(cout)
          /\ (TheQual.operator.s \notin KnownOps
              \/ (TheQual.value = None /\ TheQual.operator.s \notin {"=", "<>", "!="})))
       => cout = [match_all |-> EmptyDoc]

-----------------------------------------------------------------------------
(* Claims about the scans *)

Started(s) == pc[s] \notin {"idle", "unused"}
AllOk(s) == \A k \in 1..Len(reqs[s]) : reqs[s][k].ok
Prefix(a, b) == Len(a) <= Len(b) /\ \A i \in 1..Len(a) : a[i] = b[i]

RECURSIVE RowsOf(_, _)
\* the rows of the pages P, page by page, each page in the order received
RowsOf(by, P) ==
    IF P = <<>> THEN <<>>
    ELSE RowsOf(by, SubSeq(P, 1, Len(P) - 1))
         \o [i \in 1..P[Len(P)].n |-> Row(by, Len(P), i)]

C2_CursorReleased ==
    \A s \in Scans :
      (pc[s] = "closed" /\ ~is_aggregation[s] /\ "end_scan" \notin raised[s]) =>
        /\ \A k \in 1..Len(pages[s]) : pages[s][k].tok \in cleared[s]
        /\ scroll_id = 0

\* the after field of the composite aggregation of a request body
AfterOf(body) == body["aggs"]["group_buckets"]["composite"]["after"]

\* C3: with group_clauses given, every request of the decoder after the first
\* is a search of size 0 whose composite.after is the after_key of the
\* response before it, which carried one; a decoder that ended without a
\* failure ended on a response without after_key, so the continuation requests
\* are as many as the responses that carried an after_key; the rows yielded are
\* the buckets of the responses received, each once and in order.
C3_GroupedDraining ==
    \A s \in Scans :
      (Started(s) /\ is_aggregation[s] /\ group_clauses[s] # None) =>
        /\ \A k \in 2..Len(reqs[s]) :
             /\ k - 1 <= Len(pages[s])
             /\ pages[s][k - 1].after # 0
             /\ reqs[s][k].kind = "search"
             /\ reqs[s][k].size = 0
             /\ ~reqs[s][k].scroll
             /\ AfterOf(reqs[s][k].body) = pages[s][k - 1].after
        /\ (pc[s] = "done" /\ AllOk(s)) =>
             /\ pages[s][Len(pages[s])].after = 0
             /\ Len(reqs[s]) - 1
                  = Cardinality({k \in 1..Len(pages[s]) : pages[s][k].after # 0})
        /\ Prefix(yielded[s], RowsOf("agg", pages[s]))
        /\ pc[s] \in {"done", "fetch"} => yielded[s] = RowsOf("agg", pages[s])

\* two buckets with an after_key, then one bucket without: three rows, one
\* continuation request
C3_Witness ==
    /\ pc[1] = "done"
    /\ group_clauses[1] = PyList(<<"region">>)
    /\ Len(pages[1]) = 2
    /\ pages[1][1].n = 2 /\ pages[1][1].after # 0
    /\ pages[1][2].n = 1 /\ pages[1][2].after = 0
    /\ Len(yielded[1]) = 3
    /\ Len(reqs[1]) = 2 /\ AllOk(1)
    /\ AfterOf(reqs[1][2].body) = pages[1][1].after

\* the rows a scan has been given by the responses it received
RowsReceived(s) ==
    IF ~is_aggregation[s] THEN RowsOf("scroll", pages[s])
    ELSE IF group_clauses[s] # None THEN RowsOf("agg", pages[s])
    ELSE IF pages[s] = <<>> THEN <<>> ELSE <<Row("agg", 1, 1)>>

\* C4: when a request of execute fails, it is the last request of the scan,
\* the generator has returned, the failure was logged (once, and nothing is
\* logged otherwise), the rows of the pages received before it are the rows
\* yielded, and no exception of execute reaches the caller.
C4_FailureEndsStream ==
    \A s \in Scans :
      Started(s) =>
        /\ "execute" \notin raised[s]
        /\ AllOk(s) => logged[s] = 0
        /\ ~AllOk(s) =>
             /\ \A k \in 1..Len(reqs[s]) : ~reqs[s][k].ok => k = Len(reqs[s])
             /\ pc[s] \in {"done", "closed"}
             /\ logged[s] = 1
             /\ yielded[s] = RowsReceived(s)

C4_Witness ==
    /\ pc[1] = "done"
    /\ is_aggregation[1] /\ group_clauses[1] # None
    /\ Len(reqs[1]) = 2
    /\ reqs[1][1].ok /\ ~reqs[1][2].ok
    /\ Len(yielded[1]) = 2
    /\ logged[1] = 1
    /\ raised[1] = {}

\* C5: end_scan never lets an exception reach the caller, and leaves
\* scroll_id None, also when clear_scroll fails.
C5_BestEffortRelease ==
    \A s \in Scans :
      /\ "end_scan" \notin raised[s]
      /\ pc[s] = "closed" => scroll_id = 0

\* C6: each scroll request of a scan carries the token of that scan's latest
\* response, which is a token of its own scroll context, and end_scan of a
\* scan releases no token but its own.
C6_CursorIsolation ==
    \A s \in Scans :
      /\ \A k \in 2..Len(reqs[s]) :
           reqs[s][k].kind = "scroll" =>
             /\ reqs[s][k].scroll_id = pages[s][k - 1].tok
             /\ reqs[s][k].scroll_id = TokenOf(s)
      /\ cleared[s] \subseteq {TokenOf(s)}

HasAggs(body) == "aggs" \in DOMAIN body

\* C10: the aggregation decoder produces the rows exactly when aggs or
\* group_clauses is given, which is exactly when the query carries an aggs
\* subtree, and the row loop otherwise; a request with an aggs subtree has
\* size 0 and no scroll window, a request with a scroll window has no aggs
\* subtree, and an aggregation scan leaves scroll_id alone.
C10_ModeSelection ==
    \A s \in Scans :
      Started(s) =>
        LET given == aggs[s] # None \/ group_clauses[s] # None IN
        /\ is_aggregation[s] <=> given
        /\ given <=> HasAggs(query[s])
        /\ \A i \in 1..Len(yielded[s]) :
             yielded[s][i].by = IF given THEN "agg" ELSE "scroll"
        /\ \A k \in 1..Len(reqs[s]) :
             /\ HasAggs(reqs[s][k].body) => reqs[s][k].size = 0 /\ ~reqs[s][k].scroll
             /\ reqs[s][k].scroll => ~HasAggs(reqs[s][k].body)
        /\ given => scroll_id = 0

====
